---- MODULE Spec2Model ----
(***************************************************************************)
(* Astrality: module actions (astrality/actions.py) and the context store  *)
(* they share.  Five specifications are defined over one set of variables: *)
(*   SpecContext   the context store under item assignment and lookup      *)
(*   SpecUpdate    nested context stores under update() and chained lookup *)
(*   Spec          one action instance under construction, execute(),      *)
(*                 ownership queries, ledger reads and context store       *)
(*                 mutations                                               *)
(*   SpecSnapshot  one compile action whose caller changes the mapping     *)
(*                 that performed_compilations() returned                  *)
(*   SpecBlock     one ActionBlock under execute(), triggers() and         *)
(*                 performed_compilations()                                *)
(***************************************************************************)
EXTENDS Integers, Sequences, FiniteSets, TLC

VARIABLES
    ctx,        \* the context store shared by every action (compiler.Context)
    fs,         \* the filesystem: absolute path -> node
    act,        \* the action instance of Spec and SpecSnapshot
    ret,        \* what the last operation returned (or that it raised)
    spawned,    \* the shell commands handed to run_shell so far, and how
                \* each of them ended
    nexec,      \* number of execute() calls made so far
    block,      \* the ActionBlock of SpecBlock
    pc,         \* position of ActionBlock.execute, and the local results of
                \* ActionBlock.run
    log         \* the actions ActionBlock.execute has executed, in order

vars == <<ctx, fs, act, ret, spawned, nexec, block, pc, log>>

----------------------------------------------------------------------------
(* Bounds of the model *)

\* execute() calls checked on one action instance
MaxExec == 2
\* integer keys 0..MaxIntKey are assigned and looked up in the context store
MaxIntKey == 3
\* ActionBlock.execute() calls checked on one block
MaxBlockRuns == 1

----------------------------------------------------------------------------
(* Names and paths.  A file name is a sequence of tokens; "." and the words *)
(* between the dots are tokens.  A path is a sequence of names.            *)

Range(f) == {f[x] : x \in DOMAIN f}

Put(f, k, v) == [x \in DOMAIN f \cup {k} |-> IF x = k THEN v ELSE f[x]]

Parent(p) == SubSeq(p, 1, Len(p) - 1)

Name(p) == p[Len(p)]

IsUnder(p, d) == Len(p) > Len(d) /\ SubSeq(p, 1, Len(d)) = d

StartsWith(n, pre) == Len(n) >= Len(pre) /\ SubSeq(n, 1, Len(pre)) = pre

EndsWith(n, suf) ==
    Len(n) >= Len(suf) /\ SubSeq(n, Len(n) - Len(suf) + 1, Len(n)) = suf

----------------------------------------------------------------------------
(* The context store: astrality.context.Context.  A key is an integer or a *)
(* string; a store is a dictionary plus the greatest integer key assigned. *)

IntKey(i) == [int |-> TRUE, i |-> i, s |-> ""]

StrKey(s) == [int |-> FALSE, i |-> 0, s |-> s]

\* _max_key is -inf until an integer key is assigned
NegInf == [fin |-> FALSE, n |-> 0]

Fin(n) == [fin |-> TRUE, n |-> n]

EmptyContext == [dict |-> <<>>, max_key |-> NegInf]

IntKeysOf(S) == {k.i : k \in {x \in DOMAIN S.dict : x.int}}

\* Context.__setitem__
SetItem(S, k, v) ==
    [dict |-> Put(S.dict, k, v),
     max_key |-> IF k.int /\ (~S.max_key.fin \/ k.i > S.max_key.n)
                 THEN Fin(k.i) ELSE S.max_key]

RECURSIVE ScanDown(_, _)
\* the first present integer key met when counting down from j
ScanDown(S, j) ==
    IF IntKey(j) \in DOMAIN S.dict THEN j ELSE ScanDown(S, j - 1)

LowestIntKey(S) == CHOOSE j \in IntKeysOf(S) : \A i \in IntKeysOf(S) : j <= i

FallbackWrongMax(S, k) ==
    IF ~S.max_key.fin
    THEN [raised |-> TRUE, error |-> "no lower index", arg |-> k]
    ELSE [raised |-> FALSE, value |-> S.dict[IntKey(S.max_key.n)]]

\* the integer-index fallback of Context.__getitem__ for an absent integer key
Fallback(S, k) ==
    IF ~S.max_key.fin \/ LowestIntKey(S) > k.i
    THEN [raised |-> TRUE, error |-> "no lower index", arg |-> k]
    ELSE IF S.max_key.n < k.i
    THEN [raised |-> FALSE, value |-> S.dict[IntKey(S.max_key.n)]]
    ELSE [raised |-> FALSE, value |-> S.dict[IntKey(ScanDown(S, k.i - 1))]]

\* Context.__getitem__
GetItem(S, k) ==
    IF k \in DOMAIN S.dict
    THEN [raised |-> FALSE, value |-> S.dict[k]]
    ELSE IF k.int
    THEN Fallback(S, k)
    ELSE [raised |-> TRUE, error |-> "KeyError", arg |-> k]

\* Nested values.  Where stores are nested, a value is a record: a scalar, a
\* plain mapping (a dict) or a context store.
Scalar(s) == [scalar |-> s]

PlainMapping(f) == [plain |-> f]

IsPlain(v) == "plain" \in DOMAIN v

IsContext(v) == "dict" \in DOMAIN v

\* other.items(), of a plain mapping or of a context store
Items(other) == IF IsContext(other) THEN other.dict ELSE other.plain

RECURSIVE UpdateKeys(_, _, _)
RECURSIVE Promote(_)

PromoteNothing(v) == v

\* the value __setitem__ stores: a plain mapping becomes a context store
\* built from its items, whose own mapping values are promoted in turn
Promote(v) ==
    IF IsPlain(v) THEN UpdateKeys(EmptyContext, v.plain, DOMAIN v.plain) ELSE v

\* self[key] = value for the items under the given keys, one after another
UpdateKeys(S, items, keys) ==
    IF keys = {}
    THEN S
    ELSE LET k == CHOOSE x \in keys : TRUE
         IN  UpdateKeys(SetItem(S, k, Promote(items[k])), items, keys \ {k})

\* Context.update(other)
ContextUpdate(S, other) == UpdateKeys(S, Items(other), DOMAIN Items(other))

\* Context(content)
NewContext(content) == ContextUpdate(EmptyContext, content)

\* value[key], of a context store, a plain mapping or a scalar
Index(v, k) ==
    IF IsContext(v)
    THEN GetItem(v, k)
    ELSE IF IsPlain(v)
    THEN IF k \in DOMAIN v.plain
         THEN [raised |-> FALSE, value |-> v.plain[k]]
         ELSE [raised |-> TRUE, error |-> "KeyError", arg |-> k]
    ELSE [raised |-> TRUE, error |-> "TypeError", arg |-> k]

RECURSIVE GetPath(_, _)
\* value[path[1]][path[2]]...: the first lookup that raises ends the chain
GetPath(v, path) ==
    IF Len(path) = 0
    THEN [raised |-> FALSE, value |-> v]
    ELSE IF Index(v, Head(path)).raised
    THEN Index(v, Head(path))
    ELSE GetPath(Index(v, Head(path)).value, Tail(path))

----------------------------------------------------------------------------
(* The filesystem.  A node is a directory, a regular file (contents and    *)
(* permission bits) or a symbolic link.  File contents are a sequence of   *)
(* items: literal text, or a placeholder naming a context store key.       *)

DirNode == [type |-> "dir"]

FileNode(data, mode) == [type |-> "file", data |-> data, mode |-> mode]

LinkNode(to) == [type |-> "link", to |-> to]

Lit(s) == [kind |-> "lit", v |-> s]

Var(s) == [kind |-> "var", v |-> s]

DefaultMode == "644"

\* os.path.lexists
LExists(F, p) == p \in DOMAIN F

\* a symbolic link is followed (links in this model point at regular paths)
Resolve(F, p) == IF LExists(F, p) /\ F[p].type = "link" THEN F[p].to ELSE p

\* Path.exists
Exists(F, p) == LExists(F, Resolve(F, p))

\* Path.is_file
IsFile(F, p) == Exists(F, p) /\ F[Resolve(F, p)].type = "file"

\* Path.is_dir
IsDir(F, p) == Exists(F, p) /\ F[Resolve(F, p)].type = "dir"

\* Path.mkdir(parents=True, exist_ok=True)
Mkdir(F, d) ==
    LET new == {SubSeq(d, 1, n) : n \in 1..Len(d)} \ DOMAIN F
    IN  [p \in DOMAIN F \cup new |-> IF p \in new THEN DirNode ELSE F[p]]

\* Path.rename: the node itself moves (a link is not followed) and replaces
\* whatever non-directory is at the destination
Rename(F, p, q) ==
    [x \in (DOMAIN F \ {p}) \cup {q} |-> IF x = q THEN F[p] ELSE F[x]]

\* open(p, 'w').write(data): a link is written through
WriteFile(F, p, data, mode) == Put(F, Resolve(F, p), FileNode(data, mode))

ReadData(F, p) == F[Resolve(F, p)].data

ReadMode(F, p) == F[Resolve(F, p)].mode

\* the files below directory d, at any depth (Path.glob('**/*'), directories
\* skipped)
FilesUnder(F, d) == {p \in DOMAIN F : IsUnder(p, d) /\ ~IsDir(F, p)}

----------------------------------------------------------------------------
(* Inclusion patterns.  The regular expressions the actions use have the   *)
(* shape  pre(.+)suf  with literal pre and suf, or the negation            *)
(* (?!pre(.+)suf).+  that StowAction builds.                               *)

Pattern(pre, suf) == [neg |-> FALSE, pre |-> pre, suf |-> suf]

\* r'(.+)', the default include of compile, copy and symlink
IncludeAll == Pattern(<<>>, <<>>)

\* r'template\.(.+)', the default templates pattern of stow
DefaultTemplates == Pattern(<<"template", ".">>, <<>>)

\* r'(?!' + pattern + r').+'
Negate(P) == [P EXCEPT !.neg = TRUE]

\* pre(.+)suf matches the whole of name n
WholeMatch(P, n) ==
    /\ Len(n) > Len(P.pre) + Len(P.suf)
    /\ StartsWith(n, P.pre)
    /\ EndsWith(n, P.suf)

\* pre(.+)suf matches some prefix of n, which is what a lookahead asks
PrefixMatch(P, n) == \E k \in 1..Len(n) : WholeMatch(P, SubSeq(n, 1, k))

\* re.fullmatch(include, name) succeeds
Matches(P, n) ==
    IF P.neg THEN Len(n) >= 1 /\ ~PrefixMatch(P, n) ELSE WholeMatch(P, n)

\* the text of the capture group, or the whole name when the pattern has none
Captured(P, n) ==
    IF P.neg THEN n
    ELSE SubSeq(n, Len(P.pre) + 1, Len(n) - Len(P.suf))

\* utils.resolve_targets: content file -> target file
ResolveTargets(F, content, target, include) ==
    IF IsFile(F, content)
    THEN (content :> target)
    ELSE [p \in {f \in FilesUnder(F, content) : Matches(include, Name(f))} |->
            target
              \o SubSeq(Parent(p), Len(content) + 1, Len(p) - 1)
              \o <<Captured(include, Name(p))>>]

----------------------------------------------------------------------------
(* Return values *)

RetMap(m) == [kind |-> "map", map |-> m]

RetNone == [kind |-> "none"]

RetRaise(e) == [kind |-> "raise", error |-> e]

RetPair(command, stdout) ==
    [kind |-> "pair", command |-> command, stdout |-> stdout]

RetTrigger(t) == [kind |-> "trigger", trigger |-> t]

RetBool(b) == [kind |-> "bool", value |-> b]

RetLedger(l) == [kind |-> "ledger", ledger |-> l]

\* dict.update: the entries of m2 win
Update(m1, m2) ==
    [k \in DOMAIN m1 \cup DOMAIN m2 |-> IF k \in DOMAIN m2 THEN m2[k] ELSE m1[k]]

\* the world outside an action: what execute() may read and change
World(F, C, S, L) == [fs |-> F, ctx |-> C, spawned |-> S, log |-> L]

Outcome(a, W, r) == [self |-> a, world |-> W, ret |-> r]

----------------------------------------------------------------------------
(* Action: the superclass *)

\* Action.__init__
NewAction(kind, options, directory) ==
    [kind |-> kind,
     null_object |-> DOMAIN options = {},
     directory |-> directory,
     options |-> options]

Has(a, key) == key \in DOMAIN a.options

\* Action._absolute_path: a relative path is anchored to the directory
AbsolutePath(a, of) == IF of.abs THEN of.parts ELSE a.directory \o of.parts

\* Action.option(key, path=True), for a key that is present
OptionPath(a, key) == AbsolutePath(a, a.options[key])

\* Action.option(key, default)
Option(a, key, default) == IF Has(a, key) THEN a.options[key] ELSE default

\* defaultdict(set): ledger[content].add(target)
Record(ledger, content, target) ==
    Put(ledger, content,
        (IF content \in DOMAIN ledger THEN ledger[content] ELSE {})
            \cup {target})

----------------------------------------------------------------------------
(* ImportContextAction *)

NewImportContext(options, directory) ==
    NewAction("import_context", options, directory)

\* config.insert_into: the section from_section of the configuration file
\* is stored in the context store under the key to_section
InsertInto(C, F, from_config_file, section, from_section) ==
    SetItem(C, StrKey(section), ReadData(F, from_config_file)[from_section])

\* ImportContextAction.execute
ImportContextExecute(a, W) ==
    IF a.null_object
    THEN Outcome(a, W, RetNone)
    ELSE Outcome(a,
                 [W EXCEPT !.ctx = InsertInto(W.ctx, W.fs,
                                              OptionPath(a, "from_path"),
                                              a.options["to_section"],
                                              a.options["from_section"])],
                 RetNone)

----------------------------------------------------------------------------
(* CompileAction *)

TmpDir == << <<"tmp">> >>

\* CompileAction.__init__
NewCompile(options, directory) ==
    NewAction("compile", options, directory)
        @@ [performed_compilations |-> <<>>, temp_files |-> <<>>]

\* tempfile.NamedTemporaryFile(prefix=name + '-'): a fresh name in the
\* temporary directory
TempName(F, name) ==
    TmpDir \o <<name \o <<"-">>
                  \o [i \in 1..(Cardinality(FilesUnder(F, TmpDir)) + 1) |-> "x"]>>

\* CompileAction._create_temp_file, followed by the assignment of the
\* 'target' option
CreateTempFile(a, W) ==
    LET target == TempName(W.fs, Name(OptionPath(a, "content")))
    IN  [self |-> [a EXCEPT !.temp_files = Append(@, target),
                            !.options = Put(@, "target",
                                            [abs |-> TRUE, parts |-> target])],
         world |-> [W EXCEPT !.fs = Put(Mkdir(@, TmpDir), target,
                                        FileNode(<<>>, "600"))]]

\* the template engine: every placeholder is replaced by the value the
\* context store holds for it (by nothing when the store has no such key)
Render(data, C) ==
    [i \in DOMAIN data |->
        IF data[i].kind = "var"
        THEN IF GetItem(C, StrKey(data[i].v)).raised
             THEN Lit("")
             ELSE Lit(GetItem(C, StrKey(data[i].v)).value)
        ELSE data[i]]

\* compiler.compile_template: the rendered template is written to the
\* target, whose parent directories are created, and the permission bits are
\* set when given; writing to a directory raises
CompileTemplate(F, C, template, target, permissions) ==
    IF IsDir(F, target)
    THEN [raised |-> TRUE, fs |-> F]
    ELSE [raised |-> FALSE,
          fs |-> WriteFile(Mkdir(F, Parent(target)), target,
                           Render(ReadData(F, template), C),
                           IF permissions = "None"
                           THEN IF IsFile(F, target)
                                THEN ReadMode(F, target) ELSE DefaultMode
                           ELSE permissions)]

CompileOnlyOnce(a, W, content_file, target_file) ==
    IF content_file \in DOMAIN a.performed_compilations
    THEN [raised |-> FALSE, fs |-> W.fs]
    ELSE CompileTemplate(W.fs, W.ctx, content_file, target_file,
                         Option(a, "permissions", "None"))

\* the call of compiler.compile_template in the loop of CompileAction.execute:
\* the context is the shared store as it is now
CompileOne(a, W, content_file, target_file) ==
    CompileTemplate(W.fs, W.ctx, content_file, target_file,
                    Option(a, "permissions", "None"))

\* self._performed_compilations[content_file].add(target_file)
RecordCompilation(a, content_file, target_file) ==
    [a EXCEPT !.performed_compilations = Record(@, content_file, target_file)]

RECURSIVE CompileLoop(_, _, _, _, _)
\* the loop over compile_pairs.items(), in the order ord
CompileLoop(a, W, compile_pairs, ord, i) ==
    IF i > Len(ord)
    THEN Outcome(a, W, RetMap(compile_pairs))
    ELSE LET r == CompileOne(a, W, ord[i], compile_pairs[ord[i]])
         IN  IF r.raised
             THEN Outcome(a, W, RetRaise("IsADirectoryError"))
             ELSE CompileLoop(
                    RecordCompilation(a, ord[i], compile_pairs[ord[i]]),
                    [W EXCEPT !.fs = r.fs], compile_pairs, ord, i + 1)

\* the order in which a mapping's keys are visited: those of the candidate
\* order that the mapping holds
Visit(m, order) == SelectSeq(order, LAMBDA p : p \in DOMAIN m)

CompileResolvedUnguarded(a, W, order) ==
    IF ~Has(a, "content")
    THEN Outcome(a, W, RetRaise("AttributeError"))
    ELSE IF ~Exists(W.fs, OptionPath(a, "content"))
    THEN Outcome(RecordCompilation(a, OptionPath(a, "content"),
                                   OptionPath(a, "target")),
                 W, RetRaise("FileNotFoundError"))
    ELSE LET compile_pairs ==
                ResolveTargets(W.fs, OptionPath(a, "content"),
                               OptionPath(a, "target"),
                               Option(a, "include", IncludeAll))
         IN  CompileLoop(a, W, compile_pairs, Visit(compile_pairs, order), 1)

\* CompileAction.execute, from the resolution of the paths on
CompileResolved(a, W, order) ==
    IF ~Has(a, "content")
    THEN Outcome(a, W, RetRaise("AttributeError"))
    ELSE IF ~Exists(W.fs, OptionPath(a, "content"))
    THEN Outcome(a, W, RetMap(<<>>))
    ELSE LET compile_pairs ==
                ResolveTargets(W.fs, OptionPath(a, "content"),
                               OptionPath(a, "target"),
                               Option(a, "include", IncludeAll))
         IN  CompileLoop(a, W, compile_pairs, Visit(compile_pairs, order), 1)

CompileExecuteNoNullCheck(a, W, order) ==
    IF ~Has(a, "target")
    THEN IF ~Has(a, "content")
         THEN Outcome(a, W, RetRaise("AttributeError"))
         ELSE CompileResolved(CreateTempFile(a, W).self,
                              CreateTempFile(a, W).world, order)
    ELSE CompileResolved(a, W, order)

CompileExecuteFreshTemp(a, W, order) ==
    IF a.null_object
    THEN Outcome(a, W, RetMap(<<>>))
    ELSE IF ~Has(a, "target") \/ Len(a.temp_files) > 0
    THEN IF ~Has(a, "content")
         THEN Outcome(a, W, RetRaise("AttributeError"))
         ELSE CompileResolved(CreateTempFile(a, W).self,
                              CreateTempFile(a, W).world, order)
    ELSE CompileResolved(a, W, order)

\* CompileAction.execute
CompileExecute(a, W, order) ==
    IF a.null_object
    THEN Outcome(a, W, RetMap(<<>>))
    ELSE IF ~Has(a, "target")
    THEN IF ~Has(a, "content")
         THEN Outcome(a, W, RetRaise("AttributeError"))
         ELSE CompileResolved(CreateTempFile(a, W).self,
                              CreateTempFile(a, W).world, order)
    ELSE CompileResolved(a, W, order)

\* CompileAction.performed_compilations
PerformedCompilations(a) == a.performed_compilations

\* CompileAction.__contains__
CompileContains(a, other) ==
    IF ~(Has(a, "content") /\ OptionPath(a, "content") = other)
    THEN FALSE
    ELSE other \in DOMAIN PerformedCompilations(a)

\* self._performed_compilations.copy() hands out a new mapping whose values
\* are the sets of the ledger themselves: shared is the set of keys under
\* which the returned mapping holds the very set object the action holds
Returned(ledger, shared) ==
    [kind |-> "ledger", ledger |-> ledger, shared |-> shared]

\* what the caller of performed_compilations() does to the mapping it got
Mutations == {"setitem", "delitem", "add", "clear"}

\* the target a caller puts into the mapping it got
CallerTarget == << <<"elsewhere">> >>

\* the set under key after the caller's set operation
MutatedSet(targets, mutation) ==
    IF mutation = "add" THEN targets \cup {CallerTarget} ELSE {}

\* mapping[key] = {target}, del mapping[key], mapping[key].add(target) and
\* mapping[key].clear() on the mapping performed_compilations() returned: the
\* first two act on the copy, the set operations on a set object that the
\* ledger holds too when the key is a shared one
Mutate(ledger, returned, mutation, key) ==
    CASE mutation = "setitem" ->
            [ledger |-> ledger,
             returned |-> Returned(Put(returned.ledger, key, {CallerTarget}),
                                   returned.shared \ {key})]
      [] mutation = "delitem" ->
            [ledger |-> ledger,
             returned |->
                Returned([k \in DOMAIN returned.ledger \ {key} |->
                            returned.ledger[k]],
                         returned.shared \ {key})]
      [] OTHER ->
            [ledger |-> IF key \in returned.shared
                        THEN [ledger EXCEPT
                                ![key] = MutatedSet(@, mutation)]
                        ELSE ledger,
             returned |->
                Returned([returned.ledger EXCEPT
                            ![key] = MutatedSet(@, mutation)],
                         returned.shared)]

----------------------------------------------------------------------------
(* SymlinkAction *)

\* SymlinkAction.__init__
NewSymlink(options, directory) ==
    NewAction("symlink", options, directory) @@ [symlinked_files |-> <<>>]

\* symlink.parent / (str(symlink.name) + '.bak')
Bak(symlink) == Parent(symlink) \o <<Name(symlink) \o <<".", "bak">>>>

SymlinkOneUnlinking(F, content, symlink) ==
    LET F1 == IF IsFile(F, symlink)
              THEN [x \in DOMAIN F \ {symlink} |-> F[x]] ELSE F
        F2 == Mkdir(F1, Parent(symlink))
    IN  IF LExists(F2, symlink)
        THEN [raised |-> TRUE, fs |-> F2]
        ELSE [raised |-> FALSE, fs |-> Put(F2, symlink, LinkNode(content))]

\* the body of the loop of SymlinkAction.execute up to the creation of the
\* link: a regular file in the way is renamed, the parent directories are
\* created, and Path.symlink_to raises when the path is still taken
SymlinkOne(F, content, symlink) ==
    LET F1 == IF IsFile(F, symlink) THEN Rename(F, symlink, Bak(symlink)) ELSE F
        F2 == Mkdir(F1, Parent(symlink))
    IN  IF LExists(F2, symlink)
        THEN [raised |-> TRUE, fs |-> F2]
        ELSE [raised |-> FALSE, fs |-> Put(F2, symlink, LinkNode(content))]

RecordEarly(a, content, symlink, raised) ==
    [a EXCEPT !.symlinked_files = Record(@, content, symlink)]

\* self.symlinked_files[content].add(symlink), reached only when the link
\* was created
RecordSymlink(a, content, symlink, raised) ==
    IF raised THEN a
    ELSE [a EXCEPT !.symlinked_files = Record(@, content, symlink)]

RECURSIVE SymlinkLoop(_, _, _, _, _)
\* the loop over links.items(), in the order ord
SymlinkLoop(a, W, links, ord, i) ==
    IF i > Len(ord)
    THEN Outcome(a, W, RetMap(links))
    ELSE LET r == SymlinkOne(W.fs, ord[i], links[ord[i]])
             a1 == RecordSymlink(a, ord[i], links[ord[i]], r.raised)
         IN  IF r.raised
             THEN Outcome(a1, [W EXCEPT !.fs = r.fs],
                          RetRaise("FileExistsError"))
             ELSE SymlinkLoop(a1, [W EXCEPT !.fs = r.fs], links, ord, i + 1)

\* SymlinkAction.execute
SymlinkExecute(a, W, order) ==
    IF a.null_object
    THEN Outcome(a, W, RetMap(<<>>))
    ELSE LET links == ResolveTargets(W.fs, OptionPath(a, "content"),
                                     OptionPath(a, "target"),
                                     Option(a, "include", IncludeAll))
         IN  SymlinkLoop(a, W, links, Visit(links, order), 1)

----------------------------------------------------------------------------
(* CopyAction *)

\* CopyAction.__init__
NewCopy(options, directory) ==
    NewAction("copy", options, directory) @@ [copied_files |-> <<>>]

\* shutil.copy(content, copy): contents and permission bits; a copy onto a
\* directory lands inside it under the content's name
ShutilCopy(F, content, copy) ==
    LET dst == IF IsDir(F, copy) THEN copy \o <<Name(content)>> ELSE copy
    IN  WriteFile(F, dst, ReadData(F, content), ReadMode(F, content))

RECURSIVE CopyLoop(_, _, _, _, _)
\* the loop over copies.items(), in the order ord
CopyLoop(a, W, copies, ord, i) ==
    IF i > Len(ord)
    THEN [self |-> a, world |-> W]
    ELSE CopyLoop(
            [a EXCEPT !.copied_files = Record(@, ord[i], copies[ord[i]])],
            [W EXCEPT !.fs = ShutilCopy(Mkdir(@, Parent(copies[ord[i]])),
                                        ord[i], copies[ord[i]])],
            copies, ord, i + 1)

\* chmod <permissions> "<copy>" through utils.run_shell(fallback=False):
\* the bits change when the command succeeds
Chmod(W, permissions, copy, chmod_ok) ==
    [W EXCEPT
        !.spawned = Append(@, [kind |-> "chmod", path |-> copy,
                               timeout |-> 1]),
        !.fs = IF chmod_ok /\ IsFile(@, copy)
               THEN Put(@, Resolve(@, copy),
                        FileNode(ReadData(@, copy), permissions))
               ELSE @]

RECURSIVE ChmodLoopStopping(_, _, _, _, _, _)
ChmodLoopStopping(W, permissions, copies, ord, i, chmod_ok) ==
    IF i > Len(ord)
    THEN W
    ELSE IF copies[ord[i]] \notin chmod_ok
    THEN Chmod(W, permissions, copies[ord[i]], FALSE)
    ELSE ChmodLoopStopping(Chmod(W, permissions, copies[ord[i]], TRUE),
                           permissions, copies, ord, i + 1, chmod_ok)

RECURSIVE ChmodLoop(_, _, _, _, _, _)
\* the loop over copies.values(); chmod_ok holds the paths whose permission
\* bits can be changed
ChmodLoop(W, permissions, copies, ord, i, chmod_ok) ==
    IF i > Len(ord)
    THEN W
    ELSE ChmodLoop(Chmod(W, permissions, copies[ord[i]],
                         copies[ord[i]] \in chmod_ok),
                   permissions, copies, ord, i + 1, chmod_ok)

\* CopyAction.execute
CopyExecute(a, W, order, chmod_ok) ==
    IF a.null_object
    THEN Outcome(a, W, RetMap(<<>>))
    ELSE LET copies == ResolveTargets(W.fs, OptionPath(a, "content"),
                                      OptionPath(a, "target"),
                                      Option(a, "include", IncludeAll))
             ord == Visit(copies, order)
             done == CopyLoop(a, W, copies, ord, 1)
         IN  Outcome(done.self,
                     IF Has(a, "permissions")
                     THEN ChmodLoop(done.world, a.options["permissions"],
                                    copies, ord, 1, chmod_ok)
                     ELSE done.world,
                     RetMap(copies))

\* CopyAction.__contains__
CopyContains(a, other) == other \in DOMAIN a.copied_files

----------------------------------------------------------------------------
(* StowAction *)

\* str.lower, on the spellings of the non_templates option
Lower(str) ==
    CASE str = "Copy" -> "copy"
      [] str = "Symlink" -> "symlink"
      [] str = "Ignore" -> "ignore"
      [] OTHER -> str

\* an option mapping with 'permissions' only when the user gave it
WithPermissions(options, a) ==
    IF Has(a, "permissions")
    THEN options @@ [permissions |-> a.options["permissions"]]
    ELSE options

ExcludedNothing(templates) == IncludeAll

\* the negated templates pattern that selects the non-templates
Excluded(templates) == Negate(templates)

NewStowDefaulting(options, directory) ==
    LET base == NewAction("stow", options, directory)
        templates == Option(base, "templates", DefaultTemplates)
        compile_action ==
            NewCompile(WithPermissions([content |-> options["content"],
                                        target |-> options["target"],
                                        include |-> templates], base),
                       directory)
        non_templates == Lower(Option(base, "non_templates", "symlink"))
        non_templates_options ==
            WithPermissions([content |-> options["content"],
                             target |-> options["target"],
                             include |-> Excluded(templates)], base)
    IN  IF base.null_object
        THEN base
        ELSE base @@ [compile_action |-> compile_action,
                      ignore_non_templates |-> non_templates = "ignore",
                      non_templates_action |->
                          IF non_templates = "copy"
                          THEN NewCopy(non_templates_options, directory)
                          ELSE NewSymlink(non_templates_options, directory)]

\* StowAction.__init__: the compile action for the templates and, unless the
\* non_templates option is invalid, the copy or symlink action for the rest
NewStow(options, directory) ==
    LET base == NewAction("stow", options, directory)
        templates == Option(base, "templates", DefaultTemplates)
        compile_action ==
            NewCompile(WithPermissions([content |-> options["content"],
                                        target |-> options["target"],
                                        include |-> templates], base),
                       directory)
        non_templates == Lower(Option(base, "non_templates", "symlink"))
        non_templates_options ==
            WithPermissions([content |-> options["content"],
                             target |-> options["target"],
                             include |-> Excluded(templates)], base)
    IN  IF base.null_object
        THEN base
        ELSE IF non_templates \notin {"copy", "symlink", "ignore"}
        THEN base @@ [compile_action |-> compile_action,
                      ignore_non_templates |-> TRUE]
        ELSE base @@ [compile_action |-> compile_action,
                      ignore_non_templates |-> non_templates = "ignore",
                      non_templates_action |->
                          IF non_templates = "copy"
                          THEN NewCopy(non_templates_options, directory)
                          ELSE NewSymlink(non_templates_options, directory)]

\* an execute() call is entered: it is appended to the log
Logged(W, kind, index) ==
    [W EXCEPT !.log = Append(@, [kind |-> kind, index |-> index])]

\* self.non_templates_action.execute()
NonTemplatesExecute(a, W, order, chmod_ok) ==
    IF a.non_templates_action.kind = "copy"
    THEN CopyExecute(a.non_templates_action, Logged(W, "copy", 0),
                     order, chmod_ok)
    ELSE SymlinkExecute(a.non_templates_action, Logged(W, "symlink", 0),
                        order)

\* self.compile_action.execute()
StowCompile(a, W, order) ==
    CompileExecute(a.compile_action, Logged(W, "compile", 0), order)

StowCompileFirst(a, W, order, chmod_ok) ==
    LET second == StowCompile(a, W, order)
        a1 == [a EXCEPT !.compile_action = second.self]
        first == NonTemplatesExecute(a1, second.world, order, chmod_ok)
        a2 == [a1 EXCEPT !.non_templates_action = first.self]
    IN  IF second.ret.kind = "raise"
        THEN Outcome(a1, second.world, second.ret)
        ELSE IF first.ret.kind = "raise"
        THEN Outcome(a2, first.world, first.ret)
        ELSE Outcome(a2, first.world,
                     RetMap(Update(second.ret.map, first.ret.map)))

\* the else branch of StowAction.execute: both sub-actions, results merged
StowBoth(a, W, order, chmod_ok) ==
    LET first == NonTemplatesExecute(a, W, order, chmod_ok)
        a1 == [a EXCEPT !.non_templates_action = first.self]
        second == StowCompile(a1, first.world, order)
        a2 == [a1 EXCEPT !.compile_action = second.self]
    IN  IF first.ret.kind = "raise"
        THEN Outcome(a1, first.world, first.ret)
        ELSE IF second.ret.kind = "raise"
        THEN Outcome(a2, second.world, second.ret)
        ELSE Outcome(a2, second.world,
                     RetMap(Update(second.ret.map, first.ret.map)))

\* StowAction.execute
StowExecute(a, W, order, chmod_ok) ==
    IF a.null_object
    THEN Outcome(a, W, RetMap(<<>>))
    ELSE IF a.ignore_non_templates
    THEN LET only == StowCompile(a, W, order)
         IN  Outcome([a EXCEPT !.compile_action = only.self],
                     only.world, only.ret)
    ELSE StowBoth(a, W, order, chmod_ok)

----------------------------------------------------------------------------
(* RunAction *)

NewRun(options, directory) == NewAction("run", options, directory)

\* what the command prints: its own name and a newline
Stdout(command) == <<command, "\n">>

\* utils.run_shell: the standard output without its newlines, or the empty
\* string when the command exits non-zero or does not finish in time
RunShell(command, exit) ==
    IF exit = "ok"
    THEN SelectSeq(Stdout(command), LAMBDA c : c # "\n")
    ELSE <<>>

\* timeout or default_timeout
EffectiveTimeout(a, default_timeout) ==
    IF Has(a, "timeout") /\ a.options["timeout"] # 0
    THEN a.options["timeout"]
    ELSE default_timeout

\* a call of utils.run_shell and how the command ended
Spawn(a, default_timeout, exit) ==
    [kind |-> "shell",
     command |-> a.options["shell"],
     timeout |-> EffectiveTimeout(a, default_timeout),
     exit |-> exit]

RunExecuteRetrying(a, W, default_timeout, exit) ==
    IF a.null_object
    THEN Outcome(a, W, RetNone)
    ELSE Outcome(a,
                 [W EXCEPT !.spawned =
                     IF exit = "ok"
                     THEN Append(@, Spawn(a, default_timeout, exit))
                     ELSE @ \o <<Spawn(a, default_timeout, exit),
                                 Spawn(a, default_timeout, exit)>>],
                 RetPair(a.options["shell"],
                         RunShell(a.options["shell"], exit)))

\* RunAction.execute
RunExecute(a, W, default_timeout, exit) ==
    IF a.null_object
    THEN Outcome(a, W, RetNone)
    ELSE Outcome(a,
                 [W EXCEPT !.spawned =
                     Append(@, Spawn(a, default_timeout, exit))],
                 RetPair(a.options["shell"],
                         RunShell(a.options["shell"], exit)))

----------------------------------------------------------------------------
(* TriggerAction *)

NewTrigger(options, directory) == NewAction("trigger", options, directory)

\* Trigger.__init__: the three paths are None unless given
Trigger(block_name) == [block |-> block_name, has_path |-> FALSE]

TriggerOnModified(block_name, specified_path, relative_path, absolute_path) ==
    [block |-> block_name, has_path |-> TRUE,
     specified_path |-> specified_path,
     relative_path |-> relative_path,
     absolute_path |-> absolute_path]

\* TriggerAction.execute
TriggerExecute(a, W) ==
    IF a.null_object
    THEN Outcome(a, W, RetNone)
    ELSE IF a.options["block"] # "on_modified"
    THEN Outcome(a, W, RetTrigger(Trigger(a.options["block"])))
    ELSE IF ~Has(a, "path")
    THEN Outcome(a, W, RetRaise("TypeError"))
    ELSE Outcome(a, W,
                 RetTrigger(TriggerOnModified(
                    a.options["block"], a.options["path"],
                    a.options["path"].parts, OptionPath(a, "path"))))

\* StowAction.managed_files: reading an attribute __init__ never set raises
StowManagedFiles(a) ==
    IF "compile_action" \notin DOMAIN a \/ "non_templates_action" \notin DOMAIN a
    THEN RetRaise("AttributeError")
    ELSE IF a.non_templates_action.kind = "copy"
    THEN RetLedger(Update(a.compile_action.performed_compilations,
                          a.non_templates_action.copied_files))
    ELSE RetLedger(a.compile_action.performed_compilations)

\* StowAction.__contains__
StowContains(a, other) ==
    IF StowManagedFiles(a).kind = "raise"
    THEN StowManagedFiles(a)
    ELSE RetBool(other \in DOMAIN StowManagedFiles(a).ledger)

----------------------------------------------------------------------------
(* The files and the configurations the specifications start from *)

Rel(parts) == [abs |-> FALSE, parts |-> parts]

Abs(parts) == [abs |-> TRUE, parts |-> parts]

Directory == << <<"mod">> >>

ContentDir == Directory \o << <<"content">> >>

TargetDir == Directory \o << <<"target">> >>

TemplateA == ContentDir \o << <<"template", ".", "a">> >>

BTpl == ContentDir \o << <<"b", ".", "tpl">> >>

BTplX == ContentDir \o << <<"b", ".", "tpl", ".", "x">> >>

ContentFiles == {TemplateA, BTpl, BTplX}

ConfFile == Directory \o << <<"conf", ".", "yml">> >>

Missing == Directory \o << <<"missing">> >>

\* r'(.+)\.tpl', a templates pattern a user may give
TplSuffix == Pattern(<<>>, <<".", "tpl">>)

BaseFs ==
    (Directory :> DirNode)
    @@ (ContentDir :> DirNode)
    @@ (TemplateA :> FileNode(<<Lit("font="), Var("font")>>, DefaultMode))
    @@ (BTpl :> FileNode(<<Lit("plain")>>, DefaultMode))
    @@ (BTplX :> FileNode(<<Lit("x="), Var("font")>>, DefaultMode))
    @@ (ConfFile :> FileNode([fonts |-> "serif"], DefaultMode))

\* the target directory before the first execute(): absent, or holding a
\* regular file and/or a directory where targets will be resolved
OldFile == TargetDir \o <<Name(BTpl)>>

OldDir == TargetDir \o <<Name(BTplX)>>

WithOldFile(F) ==
    Put(Mkdir(F, TargetDir), OldFile, FileNode(<<Lit("old")>>, DefaultMode))

WithOldDir(F) == Mkdir(F, OldDir)

FsMenu == {BaseFs, WithOldFile(BaseFs), WithOldDir(BaseFs),
           WithOldDir(WithOldFile(BaseFs))}

Values == {"mono", "sans"}

InitialContext == SetItem(EmptyContext, StrKey("font"), "mono")

\* the orders in which the entries of a resolved mapping may be visited
Orders ==
    {o \in [1..Cardinality(ContentFiles) -> ContentFiles] :
        \A i, j \in DOMAIN o : i # j => o[i] # o[j]}

Exits == {"ok", "nonzero", "timeout"}

DefaultTimeouts == {0, 2}

CompileMenu ==
    {<<>>,
     [content |-> Rel(<<Name(ContentDir)>>), target |-> Rel(<<Name(TargetDir)>>)],
     [content |-> Rel(<<Name(ContentDir)>>), target |-> Rel(<<Name(TargetDir)>>),
      include |-> DefaultTemplates, permissions |-> "707"],
     [content |-> Abs(TemplateA), target |-> Rel(<<Name(TargetDir), <<"out">>>>)],
     [content |-> Rel(<<Name(ContentDir), Name(TemplateA)>>)],
     [content |-> Abs(Missing), target |-> Rel(<<Name(TargetDir)>>)],
     [content |-> Abs(Missing)]}

CopyMenu ==
    {<<>>,
     [content |-> Rel(<<Name(ContentDir)>>), target |-> Rel(<<Name(TargetDir)>>)],
     [content |-> Rel(<<Name(ContentDir)>>), target |-> Abs(TargetDir),
      permissions |-> "707"],
     [content |-> Abs(BTpl), target |-> Abs(TargetDir \o << <<"copy">> >>)]}

SymlinkMenu ==
    {<<>>,
     [content |-> Rel(<<Name(ContentDir)>>), target |-> Rel(<<Name(TargetDir)>>)],
     [content |-> Abs(BTpl), target |-> Abs(OldFile)]}

StowMenu ==
    {<<>>,
     [content |-> Rel(<<Name(ContentDir)>>), target |-> Rel(<<Name(TargetDir)>>)],
     [content |-> Rel(<<Name(ContentDir)>>), target |-> Rel(<<Name(TargetDir)>>),
      non_templates |-> "Copy"],
     [content |-> Rel(<<Name(ContentDir)>>), target |-> Rel(<<Name(TargetDir)>>),
      non_templates |-> "ignore"],
     [content |-> Rel(<<Name(ContentDir)>>), target |-> Rel(<<Name(TargetDir)>>),
      non_templates |-> "move"],
     [content |-> Rel(<<Name(ContentDir)>>), target |-> Rel(<<Name(TargetDir)>>),
      non_templates |-> "copy", templates |-> TplSuffix, permissions |-> "707"],
     [content |-> Abs(TemplateA), target |-> Abs(TargetDir \o << <<"one">> >>),
      non_templates |-> "copy"]}

RunMenu ==
    {<<>>,
     [shell |-> "ls"],
     [shell |-> "ls", timeout |-> 5],
     [shell |-> "ls", timeout |-> 0]}

TriggerMenu ==
    {<<>>,
     [block |-> "on_startup"],
     [block |-> "on_exit", path |-> Rel(<<Name(ContentDir)>>)],
     [block |-> "on_modified", path |-> Rel(<<Name(ContentDir)>>)],
     [block |-> "on_modified", path |-> Abs(ContentDir)],
     [block |-> "on_modified"]}

ImportContextMenu ==
    {<<>>,
     [from_path |-> Rel(<<Name(ConfFile)>>), from_section |-> "fonts",
      to_section |-> "font"]}

\* the constructor of each action kind
New(kind, options, directory) ==
    CASE kind = "import_context" -> NewImportContext(options, directory)
      [] kind = "compile" -> NewCompile(options, directory)
      [] kind = "copy" -> NewCopy(options, directory)
      [] kind = "symlink" -> NewSymlink(options, directory)
      [] kind = "stow" -> NewStow(options, directory)
      [] kind = "run" -> NewRun(options, directory)
      [] kind = "trigger" -> NewTrigger(options, directory)

\* execute() of each action kind
ExecuteAction(a, W, order, chmod_ok, default_timeout, exit) ==
    CASE a.kind = "import_context" -> ImportContextExecute(a, W)
      [] a.kind = "compile" -> CompileExecute(a, W, order)
      [] a.kind = "copy" -> CopyExecute(a, W, order, chmod_ok)
      [] a.kind = "symlink" -> SymlinkExecute(a, W, order)
      [] a.kind = "stow" -> StowExecute(a, W, order, chmod_ok)
      [] a.kind = "run" -> RunExecute(a, W, default_timeout, exit)
      [] a.kind = "trigger" -> TriggerExecute(a, W)

ActionMenu ==
    {New("import_context", o, Directory) : o \in ImportContextMenu}
    \cup {New("compile", o, Directory) : o \in CompileMenu}
    \cup {New("copy", o, Directory) : o \in CopyMenu}
    \cup {New("symlink", o, Directory) : o \in SymlinkMenu}
    \cup {New("stow", o, Directory) : o \in StowMenu}
    \cup {New("run", o, Directory) : o \in RunMenu}
    \cup {New("trigger", o, Directory) : o \in TriggerMenu}

----------------------------------------------------------------------------
(* SpecContext: item assignment and indexed access on one context store *)

Idle == [phase |-> "idle", i |-> 0, default_timeout |-> 0, results |-> <<>>]

NoBlock == [configured |-> FALSE]

\* the keys assigned and looked up
LookupKeys ==
    {IntKey(i) : i \in -1..MaxIntKey} \cup {StrKey("font"), StrKey("test")}

AssignedKeys == {IntKey(i) : i \in -1..MaxIntKey} \cup {StrKey("font")}

InitContext ==
    /\ ctx = EmptyContext
    /\ fs = <<>>
    /\ act = NewRun(<<>>, Directory)
    /\ ret = [op |-> "init"]
    /\ spawned = <<>>
    /\ nexec = 0
    /\ block = NoBlock
    /\ pc = Idle
    /\ log = <<>>

\* store[key] = value
ContextSetItem ==
    \E key \in AssignedKeys, value \in Values :
        /\ ctx' = SetItem(ctx, key, value)
        /\ ret' = [op |-> "setitem"]
        /\ UNCHANGED <<fs, act, spawned, nexec, block, pc, log>>

\* store[key]
ContextGetItem ==
    \E key \in LookupKeys :
        /\ ret' = [op |-> "getitem", key |-> key, val |-> GetItem(ctx, key)]
        /\ UNCHANGED <<ctx, fs, act, spawned, nexec, block, pc, log>>

NextContext == ContextSetItem \/ ContextGetItem

SpecContext == InitContext /\ [][NextContext]_vars

----------------------------------------------------------------------------
(* SpecUpdate: a context store constructed from a mapping, under update(),  *)
(* assignment of mapping values and chained indexed access                 *)

\* {'key1': 'value1', 1: 'value2', 2: {1: 'some_value'}}
OneConfDict ==
    PlainMapping((StrKey("key1") :> Scalar("value1"))
                 @@ (IntKey(1) :> Scalar("value2"))
                 @@ (IntKey(2) :> PlainMapping(IntKey(1) :> Scalar("some_value"))))

\* {'key3': 'three', 'key4': {1: 'uno', 'key4-2': 'dos'}}
AnotherConfDict ==
    PlainMapping((StrKey("key3") :> Scalar("three"))
                 @@ (StrKey("key4") :>
                        PlainMapping((IntKey(1) :> Scalar("uno"))
                                     @@ (StrKey("key4-2") :> Scalar("dos")))))

\* {1: 'other', 2: {2: {1: 'deep'}}}: both keys collide with OneConfDict
CollidingConfDict ==
    PlainMapping((IntKey(1) :> Scalar("other"))
                 @@ (IntKey(2) :>
                        PlainMapping(IntKey(2) :>
                            PlainMapping(IntKey(1) :> Scalar("deep")))))

EmptyDict == PlainMapping(<<>>)

ContentMenu == {EmptyDict, OneConfDict, AnotherConfDict}

\* the argument of update(): a plain mapping or a context store
OtherMenu ==
    {EmptyDict, OneConfDict, AnotherConfDict, CollidingConfDict,
     NewContext(AnotherConfDict), NewContext(CollidingConfDict)}

AssignedValues == {Scalar("x"), PlainMapping(IntKey(1) :> Scalar("uno"))}

PathKeys ==
    {IntKey(i) : i \in 0..MaxIntKey} \cup {StrKey("key4"), StrKey("test")}

\* chains of one to three keys; the chains of three start at an integer key
\* above 1, where the stores of this specification are nested twice
Paths ==
    {<<k>> : k \in PathKeys}
    \cup {<<k, l>> : k \in PathKeys, l \in PathKeys}
    \cup {<<k, l, m>> : k \in {IntKey(i) : i \in 2..MaxIntKey},
                        l \in PathKeys, m \in PathKeys}

InitUpdate ==
    /\ ctx \in {NewContext(content) : content \in ContentMenu}
    /\ fs = <<>>
    /\ act = NewRun(<<>>, Directory)
    /\ ret = [op |-> "init"]
    /\ spawned = <<>>
    /\ nexec = 0
    /\ block = NoBlock
    /\ pc = Idle
    /\ log = <<>>

\* store.update(other)
StoreUpdate ==
    \E other \in OtherMenu :
        /\ ctx' = ContextUpdate(ctx, other)
        /\ ret' = [op |-> "update", before |-> ctx, other |-> other]
        /\ UNCHANGED <<fs, act, spawned, nexec, block, pc, log>>

\* store[MaxIntKey] = value
StoreSetItem ==
    \E value \in AssignedValues :
        /\ ctx' = SetItem(ctx, IntKey(MaxIntKey), Promote(value))
        /\ ret' = [op |-> "setitem"]
        /\ UNCHANGED <<fs, act, spawned, nexec, block, pc, log>>

\* store[k], store[k][l] or store[k][l][m]
StoreGetPath ==
    \E path \in Paths :
        /\ ret' = [op |-> "getpath", path |-> path, val |-> GetPath(ctx, path)]
        /\ UNCHANGED <<ctx, fs, act, spawned, nexec, block, pc, log>>

NextUpdate == StoreUpdate \/ StoreSetItem \/ StoreGetPath

SpecUpdate == InitUpdate /\ [][NextUpdate]_vars

----------------------------------------------------------------------------
(* SpecAction: one action instance of any kind, constructed from one of the *)
(* configurations above                                                    *)

Init ==
    /\ ctx = InitialContext
    /\ fs \in FsMenu
    /\ act \in ActionMenu
    /\ ret = [op |-> "init"]
    /\ spawned = <<>>
    /\ nexec = 0
    /\ block = NoBlock
    /\ pc = Idle
    /\ log = <<>>

\* the inputs of execute() that the action's kind and options let it read
OrdersOf(a) ==
    IF a.kind \in {"compile", "copy", "symlink", "stow"} /\ ~a.null_object
    THEN Orders ELSE {<<>>}

\* the paths a chmod may be run on
ChmodTargets == {TargetDir \o <<Name(f)>> : f \in ContentFiles}

\* where chmod succeeds: everywhere, everywhere but on the copy of
\* template.a, or nowhere
ChmodsOf(a) ==
    IF a.kind \in {"copy", "stow"} /\ Has(a, "permissions")
    THEN {ChmodTargets, ChmodTargets \ {TargetDir \o <<Name(TemplateA)>>}, {}}
    ELSE {{}}

DefaultTimeoutsOf(a) == IF a.kind = "run" THEN DefaultTimeouts ELSE {0}

ExitsOf(a) == IF a.kind = "run" /\ ~a.null_object THEN Exits ELSE {"ok"}

\* act.execute()
Execute ==
    /\ nexec < MaxExec
    /\ \E order \in OrdersOf(act), chmod_ok \in ChmodsOf(act),
          default_timeout \in DefaultTimeoutsOf(act), exit \in ExitsOf(act) :
          LET o == ExecuteAction(act, World(fs, ctx, spawned, log), order,
                                 chmod_ok, default_timeout, exit)
          IN  /\ act' = o.self
              /\ fs' = o.world.fs
              /\ ctx' = o.world.ctx
              /\ spawned' = o.world.spawned
              /\ log' = o.world.log
              /\ ret' = [op |-> "execute", val |-> o.ret]
    /\ nexec' = nexec + 1
    /\ UNCHANGED <<block, pc>>

One(options) == [list |-> FALSE, v |-> options]

Many(options) == [list |-> TRUE, v |-> options]

\* utils.cast_to_list: a value that is no list becomes a list of one
CastToList(config) == IF config.list THEN config.v ELSE <<config.v>>

\* the (identifier, action type) pairs ActionBlock.__init__ iterates over
Identifiers == <<"import_context", "symlink", "compile", "run", "trigger">>

\* self.action_block.get(identifier, {})
ActionConfigs(action_block, identifier) ==
    CastToList(IF identifier \in DOMAIN action_block
               THEN action_block[identifier] ELSE One(<<>>))

\* ActionBlock.__init__: one list of action objects per identifier
NewActionBlock(action_block, directory) ==
    [configured |-> TRUE,
     action_block |-> action_block,
     actions |->
        [identifier \in Range(Identifiers) |->
            [n \in DOMAIN ActionConfigs(action_block, identifier) |->
                New(identifier, ActionConfigs(action_block, identifier)[n],
                    directory)]]]

QueryPaths == ContentFiles \cup {ContentDir, Missing}

\* the paths asked about: absolute ones, and Path('content/template.a') and
\* Path('content/b.tpl'), which are relative
Queries ==
    {Abs(other) : other \in QueryPaths}
    \cup {Rel(<<Name(ContentDir), Name(TemplateA)>>),
          Rel(<<Name(ContentDir), Name(BTpl)>>)}

\* CompileAction.__contains__, from its first statement:
\* assert other.is_absolute()
CompileQuery(a, other) ==
    IF ~other.abs
    THEN RetRaise("AssertionError")
    ELSE RetBool(CompileContains(a, other.parts))

\* CopyAction.__contains__, which asserts nothing: a relative path is no key
\* of copied_files, whose keys are absolute
CopyQuery(a, other) ==
    IF ~other.abs
    THEN RetBool(FALSE)
    ELSE RetBool(CopyContains(a, other.parts))

\* StowAction.__contains__, from its first statement
StowQuery(a, other) ==
    IF ~other.abs
    THEN RetRaise("AssertionError")
    ELSE StowContains(a, other.parts)

\* other in act
Contains ==
    /\ act.kind \in {"compile", "copy", "stow"}
    /\ \E other \in Queries :
          ret' = [op |-> "contains", other |-> other.parts,
                  absolute |-> other.abs,
                  val |-> CASE act.kind = "compile" -> CompileQuery(act, other)
                            [] act.kind = "copy" -> CopyQuery(act, other)
                            [] act.kind = "stow" -> StowQuery(act, other)]
    /\ UNCHANGED <<ctx, fs, act, spawned, nexec, block, pc, log>>

RetObject(object) == [kind |-> "object", object |-> object]

\* Action.__init__ from outside: assert directory.is_absolute() ends the
\* construction, otherwise the constructor of the kind makes the object
ConstructAction(kind, options, directory) ==
    IF ~directory.abs
    THEN RetRaise("AssertionError")
    ELSE RetObject(New(kind, options, directory.parts))

\* ActionBlock.__init__ from outside: assert directory.is_absolute() is its
\* first statement
ConstructActionBlock(action_block, directory) ==
    IF ~directory.abs
    THEN RetRaise("AssertionError")
    ELSE RetObject(NewActionBlock(action_block, directory.parts))

\* the directories a constructor is given: Path('/mod') and Path('mod')
Directories == {Abs(Directory), Rel(Directory)}

\* one more action, or an ActionBlock holding one, is constructed from the
\* configuration of act
Construct ==
    /\ \E directory \in Directories, what \in {"action", "block"} :
          ret' = [op |-> "construct", what |-> what, directory |-> directory,
                  val |-> IF what = "action"
                          THEN ConstructAction(act.kind, act.options,
                                               directory)
                          ELSE ConstructActionBlock(
                                  (act.kind :> One(act.options)), directory)]
    /\ UNCHANGED <<ctx, fs, act, spawned, nexec, block, pc, log>>

\* act.performed_compilations(), or act.managed_files() of a stow action
ReadLedger ==
    /\ act.kind \in {"compile", "stow"}
    /\ ret' = [op |-> "read",
               val |-> IF act.kind = "compile"
                       THEN Returned(PerformedCompilations(act),
                                     DOMAIN PerformedCompilations(act))
                       ELSE StowManagedFiles(act)]
    /\ UNCHANGED <<ctx, fs, act, spawned, nexec, block, pc, log>>

\* context_store['font'] = value, by whoever shares the store
SetContext ==
    \E value \in Values :
        /\ ctx' = SetItem(ctx, StrKey("font"), value)
        /\ ret' = [op |-> "setitem"]
        /\ UNCHANGED <<fs, act, spawned, nexec, block, pc, log>>

Next == Execute \/ Contains \/ ReadLedger \/ SetContext \/ Construct

Spec == Init /\ [][Next]_vars

----------------------------------------------------------------------------
(* SpecSnapshot: one compile action whose caller keeps and changes the     *)
(* mapping that performed_compilations() returned                          *)

InitSnapshot ==
    /\ Init
    /\ act.kind = "compile"

\* the keys the caller uses: a compiled template and a path never compiled
MutationKeys == {TemplateA, Missing}

\* the caller changes the mapping it holds
MutateReturned ==
    /\ ret.op \in {"read", "mutate"}
    /\ \E mutation \in Mutations, key \in MutationKeys :
          /\ mutation # "setitem" => key \in DOMAIN ret.val.ledger
          /\ LET m == Mutate(act.performed_compilations, ret.val,
                             mutation, key)
             IN  /\ act' = [act EXCEPT !.performed_compilations = m.ledger]
                 /\ ret' = [op |-> "mutate", val |-> m.returned]
    /\ UNCHANGED <<ctx, fs, spawned, nexec, block, pc, log>>

NextSnapshot == Execute \/ Contains \/ ReadLedger \/ MutateReturned

SpecSnapshot == InitSnapshot /\ [][NextSnapshot]_vars

----------------------------------------------------------------------------
(* ActionBlock *)

PhasesRunFirst == <<"run", "compile", "import_context">>

\* the calls ActionBlock.execute makes, in order: import_context(),
\* compile(), run()
Phases == <<"import_context", "compile", "run">>

PhaseAfter(phase) ==
    IF \E n \in 1..(Len(Phases) - 1) : Phases[n] = phase
    THEN Phases[(CHOOSE n \in 1..(Len(Phases) - 1) : Phases[n] = phase) + 1]
    ELSE "done"

BlockMenu ==
    {[import_context |-> One([from_path |-> Rel(<<Name(ConfFile)>>),
                              from_section |-> "fonts",
                              to_section |-> "font"]),
      symlink |-> One([content |-> Abs(BTpl), target |-> Abs(OldFile)]),
      compile |-> Many(<<[content |-> Abs(Missing),
                          target |-> Rel(<<Name(TargetDir)>>)],
                         [content |-> Abs(TemplateA),
                          target |-> Rel(<<Name(TargetDir), <<"out">>>>)]>>),
      run |-> Many(<<[shell |-> "ls"], [shell |-> "cat", timeout |-> 5]>>),
      trigger |-> One([block |-> "on_exit"])],
     [compile |-> One([content |-> Rel(<<Name(ContentDir)>>),
                       target |-> Rel(<<Name(TargetDir)>>),
                       include |-> DefaultTemplates]),
      run |-> Many(<<[shell |-> "ls"], <<>>, [shell |-> "cat"]>>),
      trigger |-> Many(<<[block |-> "on_startup"], <<>>,
                         [block |-> "on_exit",
                          path |-> Rel(<<Name(ContentDir)>>)]>>)],
     [symlink |-> Many(<<[content |-> Rel(<<Name(ContentDir)>>),
                          target |-> Rel(<<Name(TargetDir)>>)],
                         <<>>>>),
      trigger |-> Many(<<[block |-> "on_startup"],
                         [block |-> "on_modified"]>>)],
     [import_context |-> Many(<<<<>>,
                                [from_path |-> Rel(<<Name(ConfFile)>>),
                                 from_section |-> "fonts",
                                 to_section |-> "font"]>>),
      compile |-> Many(<<[content |-> Abs(Missing)],
                         <<>>,
                         [content |-> Rel(<<Name(ContentDir),
                                            Name(TemplateA)>>)]>>),
      run |-> Many(<<<<>>, [shell |-> "ls", timeout |-> 0]>>),
      trigger |-> Many(<<[block |-> "on_modified",
                          path |-> Rel(<<Name(ContentDir)>>)],
                         <<>>>>)]}

InitBlock ==
    /\ ctx = InitialContext
    /\ fs \in FsMenu
    /\ act = NewRun(<<>>, Directory)
    /\ ret = [op |-> "init"]
    /\ spawned = <<>>
    /\ nexec = 0
    /\ block \in {NewActionBlock(c, Directory) : c \in BlockMenu}
    /\ pc = Idle
    /\ log = <<>>

CollectReversed(results, result) ==
    IF result.kind = "none"
    THEN results
    ELSE <<<<result.command, result.stdout>>>> \o results

\* the body of the loop of ActionBlock.run: if result: results += (result,)
Collect(results, result) ==
    IF result.kind = "none"
    THEN results
    ELSE Append(results, <<result.command, result.stdout>>)

\* ActionBlock.execute(default_timeout) is called
BlockExecute ==
    /\ pc.phase \in {"idle", "done"}
    /\ nexec < MaxBlockRuns
    /\ \E default_timeout \in DefaultTimeouts :
          pc' = [phase |-> Phases[1], i |-> 1,
                 default_timeout |-> default_timeout, results |-> <<>>]
    /\ nexec' = nexec + 1
    /\ log' = <<>>
    /\ ret' = [op |-> "call"]
    /\ UNCHANGED <<ctx, fs, act, spawned, block>>

\* one iteration of the loop of import_context(), compile() or run(), or the
\* return from it; an exception leaves execute()
BlockStep(phase) ==
    /\ pc.phase = phase
    /\ IF pc.i > Len(block.actions[phase])
       THEN /\ pc' = [pc EXCEPT !.phase = PhaseAfter(phase), !.i = 1]
            /\ ret' = IF PhaseAfter(phase) = "done"
                      THEN [op |-> "execute", val |-> RetNone] ELSE ret
            /\ UNCHANGED <<ctx, fs, act, spawned, nexec, block, log>>
       ELSE \E order \in OrdersOf(block.actions[phase][pc.i]),
               exit \in ExitsOf(block.actions[phase][pc.i]) :
               LET o == ExecuteAction(
                          block.actions[phase][pc.i],
                          Logged(World(fs, ctx, spawned, log), phase, pc.i),
                          order, {}, pc.default_timeout, exit)
               IN  /\ block' = [block EXCEPT !.actions[phase][pc.i] = o.self]
                   /\ fs' = o.world.fs
                   /\ ctx' = o.world.ctx
                   /\ spawned' = o.world.spawned
                   /\ log' = o.world.log
                   /\ IF o.ret.kind = "raise"
                      THEN /\ pc' = [pc EXCEPT !.phase = "raised"]
                           /\ ret' = [op |-> "execute", val |-> o.ret]
                      ELSE /\ ret' = [op |-> phase, index |-> pc.i,
                                      val |-> o.ret]
                           /\ pc' = [pc EXCEPT
                                        !.i = @ + 1,
                                        !.results =
                                            IF phase = "run"
                                            THEN Collect(@, ret'.val) ELSE @]
                   /\ UNCHANGED <<act, nexec>>

BlockImportContext == BlockStep("import_context")

BlockCompile == BlockStep("compile")

BlockRun == BlockStep("run")

\* ActionBlock.performed_compilations: the targets of every compile action
\* are gathered, template by template, into sets made for the result
AllCompilations(b) ==
    LET actions == b.actions["compile"]
        of(n) == actions[n].performed_compilations
    IN  Returned([template \in UNION {DOMAIN of(n) : n \in DOMAIN actions} |->
                    UNION {of(n)[template] :
                             n \in {x \in DOMAIN actions :
                                      template \in DOMAIN of(x)}}],
                 {})

\* block.performed_compilations(), between two calls of execute()
BlockPerformedCompilations ==
    /\ pc.phase \in {"idle", "done", "raised"}
    /\ ret' = [op |-> "read", val |-> AllCompilations(block)]
    /\ UNCHANGED <<ctx, fs, act, spawned, nexec, block, pc, log>>

\* the caller changes the mapping it holds, none of whose sets is held by a
\* compile action
BlockMutateReturned ==
    /\ ret.op \in {"read", "mutate"}
    /\ \E mutation \in Mutations, key \in MutationKeys :
          /\ mutation # "setitem" => key \in DOMAIN ret.val.ledger
          /\ ret' = [op |-> "mutate",
                     val |-> Mutate(<<>>, ret.val, mutation, key).returned]
    /\ UNCHANGED <<ctx, fs, act, spawned, nexec, block, pc, log>>

RetTuple(items) == [kind |-> "tuple", items |-> items]

RECURSIVE TriggersLoopAll(_, _, _, _)
TriggersLoopAll(actions, W, i, items) ==
    IF i > Len(actions)
    THEN [actions |-> actions, world |-> W, ret |-> RetTuple(items)]
    ELSE LET o == TriggerExecute(actions[i], W)
         IN  IF o.ret.kind = "raise"
             THEN [actions |-> actions, world |-> o.world, ret |-> o.ret]
             ELSE TriggersLoopAll([actions EXCEPT ![i] = o.self], o.world,
                                  i + 1, Append(items, o.ret))

RECURSIVE TriggersLoop(_, _, _, _)
\* the generator of ActionBlock.triggers: trigger_action.execute() for each
\* trigger action that is no null object, in the order of the list
TriggersLoop(actions, W, i, items) ==
    IF i > Len(actions)
    THEN [actions |-> actions, world |-> W, ret |-> RetTuple(items)]
    ELSE IF actions[i].null_object
    THEN TriggersLoop(actions, W, i + 1, items)
    ELSE LET o == TriggerExecute(actions[i], W)
         IN  IF o.ret.kind = "raise"
             THEN [actions |-> actions, world |-> o.world, ret |-> o.ret]
             ELSE TriggersLoop([actions EXCEPT ![i] = o.self], o.world,
                               i + 1, Append(items, o.ret.trigger))

\* ActionBlock.triggers(), called while execute() is not running
BlockTriggers ==
    /\ pc.phase \in {"idle", "done"}
    /\ LET o == TriggersLoop(block.actions["trigger"],
                             World(fs, ctx, spawned, log), 1, <<>>)
       IN  /\ block' = [block EXCEPT !.actions["trigger"] = o.actions]
           /\ fs' = o.world.fs
           /\ ctx' = o.world.ctx
           /\ spawned' = o.world.spawned
           /\ log' = o.world.log
           /\ ret' = [op |-> "triggers", val |-> o.ret]
    /\ UNCHANGED <<act, nexec, pc>>

NextBlock ==
    BlockExecute \/ BlockImportContext \/ BlockCompile \/ BlockRun
        \/ BlockTriggers \/ BlockPerformedCompilations \/ BlockMutateReturned

SpecBlock == InitBlock /\ [][NextBlock]_vars

----------------------------------------------------------------------------
(* Properties of the context store (SpecContext) *)

\* the present integer keys below integer key k
LowerKeys(S, k) == {j \in IntKeysOf(S) : j < k.i}

GreatestLower(S, k) ==
    CHOOSE j \in LowerKeys(S, k) : \A i \in LowerKeys(S, k) : i <= j

\* C10: store[k] for an absent key k: an integer k yields the value under the
\* greatest present integer key below k, or raises the 'no lower index'
\* KeyError when there is none; a string k raises KeyError(k) whatever
\* integer keys are present.
C10_AbsentKeyLookup ==
    (ret.op = "getitem" /\ ret.key \notin DOMAIN ctx.dict) =>
        IF ret.key.int
        THEN IF LowerKeys(ctx, ret.key) # {}
             THEN /\ ~ret.val.raised
                  /\ ret.val.value =
                        ctx.dict[IntKey(GreatestLower(ctx, ret.key))]
             ELSE /\ ret.val.raised
                  /\ ret.val.error = "no lower index"
        ELSE /\ ret.val.raised
             /\ ret.val.error = "KeyError"
             /\ ret.val.arg = ret.key

\* an absent integer key between two present ones, holding different values,
\* has been looked up
C10_Witness ==
    /\ ret.op = "getitem"
    /\ ret.key = IntKey(2)
    /\ DOMAIN ctx.dict = {IntKey(0), IntKey(1), IntKey(3), StrKey("font")}
    /\ ctx.dict[IntKey(1)] # ctx.dict[IntKey(3)]
    /\ ctx.dict[IntKey(1)] # ctx.dict[IntKey(0)]
    /\ ~ret.val.raised
    /\ ret.val.value = ctx.dict[IntKey(1)]

----------------------------------------------------------------------------
(* Properties of ActionBlock.execute (SpecBlock) *)

FileKinds == {"compile", "copy", "symlink", "stow"}

\* the place of an action kind in the order of execution
Rank(kind) ==
    CASE kind = "import_context" -> 1
      [] kind \in FileKinds -> 2
      [] kind = "run" -> 3

\* the number of times action number index of the list kind was executed
Executions(kind, index) ==
    Cardinality({n \in DOMAIN log :
                    log[n] = [kind |-> kind, index |-> index]})

\* once an action of kind later has started, every action of the list
\* earlier has been executed
AllBefore(earlier, later) ==
    (\E n \in DOMAIN log : log[n].kind = later) =>
        \A index \in DOMAIN block.actions[earlier] :
            \E m \in DOMAIN log :
                /\ log[m] = [kind |-> earlier, index |-> index]
                /\ \A n \in DOMAIN log : log[n].kind = later => m < n

C7_EveryFileActionOnce ==
    pc.phase = "done" =>
        \A kind \in {"symlink", "compile"} :
            \A index \in DOMAIN block.actions[kind] :
                ~block.actions[kind][index].null_object =>
                    Executions(kind, index) = 1

\* the content path of a compile action does not exist
MissingContent(a, F) ==
    /\ a.kind = "compile"
    /\ Has(a, "content")
    /\ ~Exists(F, OptionPath(a, "content"))

\* C8 (the action): the execute() of a compile action whose content path
\* does not exist returns an empty mapping without raising and leaves the
\* ledger as it was, and the block goes on to the next action.
C8_MissingContentStep ==
    (/\ pc.phase = "compile"
     /\ pc.i <= Len(block.actions["compile"])
     /\ MissingContent(block.actions["compile"][pc.i], fs)) =>
        /\ pc'.phase = "compile"
        /\ pc'.i = pc.i + 1
        /\ ret'.val = RetMap(<<>>)
        /\ block'.actions["compile"][pc.i].performed_compilations =
              block.actions["compile"][pc.i].performed_compilations

\* C8 (the block): a block holding such a compile action never leaves
\* execute() by an exception, and when it has completed every compile action
\* and every run action was executed once.
C8_BlockCompletes ==
    (\E index \in DOMAIN block.actions["compile"] :
        MissingContent(block.actions["compile"][index], fs)) =>
        /\ pc.phase # "raised"
        /\ pc.phase = "done" =>
              \A kind \in {"compile", "run"} :
                  \A index \in DOMAIN block.actions[kind] :
                      Executions(kind, index) = 1

\* C8: a compile action whose content path does not exist returns an empty
\* mapping, does not raise and leaves its ledger unchanged, and the block
\* still executes every later compile action and every run action and
\* completes.
C8_MissingContentAbsorbed ==
    [][C8_MissingContentStep]_vars /\ []C8_BlockCompletes

\* a block whose first compile action has no content has completed, the
\* later compile action has produced its target and both commands were run
C8_Witness ==
    /\ pc.phase = "done"
    /\ MissingContent(block.actions["compile"][1], fs)
    /\ block.actions["compile"][1].performed_compilations = <<>>
    /\ Len(block.actions["compile"]) = 2
    /\ DOMAIN block.actions["compile"][2].performed_compilations = {TemplateA}
    /\ Len(spawned) = 2

----------------------------------------------------------------------------
(* Properties of one action instance (Spec) *)

\* a ledger as a set of (kind, source, target) entries
Entries(kind, ledger) ==
    UNION {{<<kind, c, t>> : t \in ledger[c]} : c \in DOMAIN ledger}

\* every ledger entry an action instance holds, those of the sub-actions of
\* a stow action included
Ledger(a) ==
    CASE a.kind = "compile" -> Entries("compile", a.performed_compilations)
      [] a.kind = "copy" -> Entries("copy", a.copied_files)
      [] a.kind = "symlink" -> Entries("symlink", a.symlinked_files)
      [] a.kind = "stow" ->
            (IF "compile_action" \in DOMAIN a
             THEN Entries("compile", a.compile_action.performed_compilations)
             ELSE {})
            \cup (IF "non_templates_action" \in DOMAIN a
                  THEN IF a.non_templates_action.kind = "copy"
                       THEN Entries("copy",
                                    a.non_templates_action.copied_files)
                       ELSE Entries("symlink",
                                    a.non_templates_action.symlinked_files)
                  ELSE {})
      [] OTHER -> {}

\* the target of a ledger entry has been produced from its source
Produced(F, entry) ==
    IF entry[1] = "symlink"
    THEN LExists(F, entry[3]) /\ F[entry[3]] = LinkNode(entry[2])
    ELSE Exists(F, entry[3])

NullResult(kind) ==
    IF kind \in {"import_context", "run", "trigger"}
    THEN RetNone ELSE RetMap(<<>>)

C4_OwnsWhatItCompiled ==
    act.kind = "compile" =>
        \A other \in QueryPaths :
            CompileContains(act, other) =
                (other \in DOMAIN act.performed_compilations)

\* a successful execute() of a stow action that runs both sub-actions
StowDone ==
    /\ act.kind = "stow"
    /\ ~act.null_object
    /\ ~act.ignore_non_templates
    /\ ret.op = "execute"
    /\ ret.val.kind = "map"

InCompile(f) == f \in DOMAIN act.compile_action.performed_compilations

InComplement(f) ==
    IF act.non_templates_action.kind = "copy"
    THEN f \in DOMAIN act.non_templates_action.copied_files
    ELSE f \in DOMAIN act.non_templates_action.symlinked_files

\* the files the stow action is to handle: the content file, or the files
\* under the content directory
StowFiles ==
    IF IsFile(fs, OptionPath(act, "content"))
    THEN {OptionPath(act, "content")}
    ELSE FilesUnder(fs, OptionPath(act, "content"))

\* every file is handled by the compile sub-action when its name matches
\* the templates pattern and by the complement sub-action otherwise, and by
\* no other
Partitioned ==
    \A f \in StowFiles :
        /\ InCompile(f) =
              Matches(Option(act, "templates", DefaultTemplates), Name(f))
        /\ InComplement(f) = ~InCompile(f)

PrefixClosed(P) ==
    \A f \in StowFiles : PrefixMatch(P, Name(f)) => WholeMatch(P, Name(f))

LastTwo == <<log[Len(log) - 1].kind, log[Len(log)].kind>>

\* C6 as claimed: StowAction.execute runs the compile sub-action first and
\* the copy or symlink sub-action second.
C6_CompileFirst ==
    StowDone =>
        LastTwo = <<"compile", act.non_templates_action.kind>>

\* C6 as amended: StowAction.execute runs the copy or symlink sub-action
\* first and the compile sub-action second, and returns the compile result
\* updated with the copy or symlink result.
C6_ComplementFirst ==
    StowDone =>
        /\ LastTwo = <<act.non_templates_action.kind, "compile">>
        /\ ret.val.map =
              Update(ResolveTargets(fs, OptionPath(act, "content"),
                                    OptionPath(act, "target"),
                                    act.compile_action.options["include"]),
                     ResolveTargets(fs, OptionPath(act, "content"),
                                    OptionPath(act, "target"),
                                    act.non_templates_action.options["include"]))

\* a stow action in symlink mode has returned the merged mapping of three
\* files, the links made before the template was compiled
C6_Witness ==
    /\ StowDone
    /\ act.non_templates_action.kind = "symlink"
    /\ DOMAIN ret.val.map = ContentFiles
    /\ log = <<[kind |-> "symlink", index |-> 0],
               [kind |-> "compile", index |-> 0]>>

\* C9: after each successful execute() of a compile action, every target
\* holds its template rendered against the context store as it is at that
\* call.
C9_TargetReflectsContext ==
    (/\ act.kind = "compile"
     /\ ret.op = "execute"
     /\ ret.val.kind = "map") =>
        \A content_file \in DOMAIN ret.val.map :
            /\ IsFile(fs, ret.val.map[content_file])
            /\ ReadData(fs, ret.val.map[content_file]) =
                  Render(ReadData(fs, content_file), ctx)

\* a template was compiled, the store changed, and the second execute() has
\* written the new value in place of the old
C9_Witness ==
    /\ act.kind = "compile"
    /\ nexec = 2
    /\ ret.op = "execute"
    /\ ret.val.kind = "map"
    /\ TemplateA \in DOMAIN ret.val.map
    /\ ctx.dict[StrKey("font")] = "sans"
    /\ ReadData(fs, ret.val.map[TemplateA]) = <<Lit("font="), Lit("sans")>>

----------------------------------------------------------------------------
(* Properties of nested context stores (SpecUpdate) *)

RECURSIVE Demote(_)
\* the plain value a value compares equal to: mappings all the way down
Demote(v) ==
    IF IsContext(v) \/ IsPlain(v)
    THEN PlainMapping([k \in DOMAIN Items(v) |-> Demote(Items(v)[k])])
    ELSE v

RECURSIVE Promoted(_)
\* no mapping value below v is a plain mapping
Promoted(v) ==
    IsContext(v) =>
        \A k \in DOMAIN v.dict : ~IsPlain(v.dict[k]) /\ Promoted(v.dict[k])

\* the present integer keys of plain mapping m below integer key k
LowerIn(m, k) == {x.i : x \in {y \in DOMAIN m.plain : y.int /\ y.i < k.i}}

RECURSIVE Expected(_, _)
\* what the fallback rule, applied at every depth, says m[path] is
Expected(m, path) ==
    IF Len(path) = 0
    THEN [raised |-> FALSE, value |-> m]
    ELSE IF ~IsPlain(m)
    THEN [raised |-> TRUE, error |-> "TypeError", arg |-> Head(path)]
    ELSE IF Head(path) \in DOMAIN m.plain
    THEN Expected(m.plain[Head(path)], Tail(path))
    ELSE IF ~Head(path).int
    THEN [raised |-> TRUE, error |-> "KeyError", arg |-> Head(path)]
    ELSE IF LowerIn(m, Head(path)) = {}
    THEN [raised |-> TRUE, error |-> "no lower index", arg |-> Head(path)]
    ELSE Expected(
            m.plain[IntKey(CHOOSE j \in LowerIn(m, Head(path)) :
                              \A i \in LowerIn(m, Head(path)) : i <= j)],
            Tail(path))

\* C11: update(b) leaves the plain-mapping union of the store and b, b's value
\* winning on a key collision; every mapping value of a store, at any depth,
\* is a context store; and chained indexed access follows the integer
\* fallback rule at every depth.
C11_UpdateAndPromotion ==
    /\ ret.op = "update" =>
          Demote(ctx) =
              PlainMapping(Update(Demote(ret.before).plain,
                                  Demote(ret.other).plain))
    /\ Promoted(ctx)
    /\ ret.op = "getpath" =>
          LET e == Expected(Demote(ctx), ret.path)
          IN  /\ ret.val.raised = e.raised
              /\ IF e.raised
                 THEN ret.val.error = e.error /\ ret.val.arg = e.arg
                 ELSE Demote(ret.val.value) = e.value

\* an update has replaced a value under a colliding key by a plain mapping of
\* the argument, which the store now holds as a context store
C11_Witness ==
    /\ ret.op = "update"
    /\ IsPlain(ret.other)
    /\ \E k \in DOMAIN ret.before.dict \cap DOMAIN ret.other.plain :
          /\ IsPlain(ret.other.plain[k])
          /\ Demote(ret.before.dict[k]) # ret.other.plain[k]
          /\ IsContext(ctx.dict[k])
          /\ \E l \in DOMAIN ctx.dict[k].dict : IsContext(ctx.dict[k].dict[l])

----------------------------------------------------------------------------
(* Properties of ActionBlock.run and ActionBlock.triggers (SpecBlock) *)

\* the actions of a list that are no null objects, in the order of the list
Live(actions) == SelectSeq(actions, LAMBDA a : ~a.null_object)

\* the commands spawned by the running call: earlier calls of execute() have
\* spawned theirs before
SpawnedByCall ==
    SubSeq(spawned, Len(spawned) - Len(pc.results) + 1, Len(spawned))

\* the run actions executed so far by the running call
RunsDone ==
    SubSeq(block.actions["run"], 1,
           IF pc.phase = "run" THEN pc.i - 1
           ELSE IF pc.phase = "done" THEN Len(block.actions["run"]) ELSE 0)

\* C12: the actions of one list are executed in the order of the list, and
\* the results of ActionBlock.run are the (command, stdout) pairs of the run
\* actions executed so far that are no null objects, in the order of the
\* list; the commands were spawned in that order.
C12_DeclarationOrder ==
    /\ \A m, n \in DOMAIN log :
          (m < n /\ log[m].kind = log[n].kind) => log[m].index < log[n].index
    /\ pc.phase \in {"run", "done"} =>
          /\ Len(pc.results) = Len(Live(RunsDone))
          /\ Len(spawned) >= Len(pc.results)
          /\ \A n \in DOMAIN pc.results :
                /\ pc.results[n][1] = Live(RunsDone)[n].options["shell"]
                /\ SpawnedByCall[n].command = pc.results[n][1]
                /\ pc.results[n][2] \in
                      {RunShell(pc.results[n][1], exit) : exit \in Exits}

\* a list of three run actions, the second a null object, has been run: two
\* pairs with different commands are returned
C12_Witness ==
    /\ pc.phase = "done"
    /\ Len(block.actions["run"]) = 3
    /\ block.actions["run"][2].null_object
    /\ Len(pc.results) = 2
    /\ pc.results[1][1] # pc.results[2][1]
    /\ pc.results[1][2] # <<>>

\* C13 (execute): no step of ActionBlock.execute executes a trigger action
C13_NoTriggerExecuted ==
    /\ \A n \in DOMAIN log : log[n].kind # "trigger"
    /\ ret.op \notin {"triggers", "init", "call"} => ret.val.kind # "trigger"
    /\ \A n \in DOMAIN spawned : spawned[n].kind = "shell"

\* every on_modified trigger action of the block names the path to watch
PathsGiven ==
    \A n \in DOMAIN block.actions["trigger"] :
        (/\ ~block.actions["trigger"][n].null_object
         /\ block.actions["trigger"][n].options["block"] = "on_modified")
            => Has(block.actions["trigger"][n], "path")

\* C13 (triggers, result): one Trigger for each trigger action that is no
\* null object, in the order of the list
C13_OneTriggerEach ==
    (ret.op = "triggers" /\ PathsGiven) =>
        /\ ret.val.kind = "tuple"
        /\ Len(ret.val.items) = Len(Live(block.actions["trigger"]))
        /\ \A n \in DOMAIN ret.val.items :
              ret.val.items[n].block =
                  Live(block.actions["trigger"])[n].options["block"]

\* C13 (triggers, frame): the call changes no file, context value, ledger or
\* action, and spawns nothing
C13_TriggersFrame ==
    ret'.op = "triggers" => UNCHANGED <<fs, ctx, block, spawned, log>>

----------------------------------------------------------------------------
(* Properties of TriggerAction (Spec) *)

\* C14: execute() of a trigger action that is no null object returns a
\* Trigger for the block option, which carries the specified, the relative
\* and the absolute path exactly when the block is on_modified.
C14_TriggerFields ==
    (act.kind = "trigger" /\ ~act.null_object /\ ret.op = "execute") =>
        /\ ret.val.kind = "trigger"
        /\ ret.val.trigger.block = act.options["block"]
        /\ ret.val.trigger.has_path <=> (act.options["block"] = "on_modified")
        /\ ret.val.trigger.has_path =>
              /\ ret.val.trigger.specified_path = act.options["path"]
              /\ ret.val.trigger.relative_path = act.options["path"].parts
              /\ ret.val.trigger.absolute_path =
                    IF act.options["path"].abs
                    THEN act.options["path"].parts
                    ELSE act.directory \o act.options["path"].parts

----------------------------------------------------------------------------
(* Properties of RunAction (Spec, SpecBlock) *)

\* C15: the timeout handed to run_shell is the timeout option of the run
\* action whenever the option is given, whatever its value, and a block-level
\* default otherwise.
C15_OwnTimeoutWins ==
    (act.kind = "run" /\ ~act.null_object /\ ret.op = "execute") =>
        IF Has(act, "timeout")
        THEN spawned[Len(spawned)].timeout = act.options["timeout"]
        ELSE spawned[Len(spawned)].timeout \in DefaultTimeouts

\* C16 (results): every run action executed by the call that is no null
\* object has one pair among the results, and a command that exited non-zero or timed out has the pair
\* (command, '') among the results of ActionBlock.run
C16_EmptyStdoutKept ==
    pc.phase \in {"run", "done"} =>
        /\ Len(pc.results) = Len(Live(RunsDone))
        /\ Len(spawned) >= Len(pc.results)
        /\ \A n \in DOMAIN pc.results :
              SpawnedByCall[n].exit # "ok" =>
                  pc.results[n] = <<SpawnedByCall[n].command, <<>>>>
        /\ pc.phase = "done" =>
              \A index \in DOMAIN block.actions["run"] :
                  Executions("run", index) = 1

\* C16 (steps): no step of ActionBlock.run leaves by an exception, and a
\* step that executes a run action that is no null object spawns one command
C16_RunNeverRaises ==
    pc.phase = "run" =>
        /\ pc'.phase # "raised"
        /\ Len(spawned') = Len(spawned) + (Len(pc'.results) - Len(pc.results))
        /\ Len(pc'.results) - Len(pc.results) =
              IF /\ pc'.phase = "run"
                 /\ pc'.i = pc.i + 1
                 /\ ~block.actions["run"][pc.i].null_object
              THEN 1 ELSE 0

\* C16: a run action whose command exits non-zero or times out does not
\* raise and yields (command, ''); the command is spawned once; the pair is
\* among the results of ActionBlock.run, which executes the remaining run
\* actions.
C16_FailedRunAbsorbed ==
    []C16_EmptyStdoutKept /\ [][C16_RunNeverRaises]_vars

\* the first of two commands failed, the second was run and printed
C16_Witness ==
    /\ pc.phase = "done"
    /\ Len(pc.results) = 2
    /\ spawned[1].exit = "timeout"
    /\ pc.results[1][2] = <<>>
    /\ spawned[2].exit = "ok"
    /\ pc.results[2][2] # <<>>

----------------------------------------------------------------------------
(* Properties of SymlinkAction (Spec) *)

\* an execute() of a symlink action that is no null object has returned
SymlinkCompleted(r) ==
    /\ act.kind = "symlink"
    /\ ~act.null_object
    /\ r.op = "execute"
    /\ r.val.kind = "map"

\* C17 (one call): what an execute() that returns leaves of the files it
\* found
C17_ExecuteStep ==
    (nexec' = nexec + 1 /\ SymlinkCompleted(ret')) =>
        \A content \in DOMAIN ret'.val.map :
            LET symlink == ret'.val.map[content]
            IN  /\ LExists(fs', symlink)
                /\ fs'[symlink] = LinkNode(content)
                /\ IsDir(fs', Parent(symlink))
                /\ (LExists(fs, symlink) /\ fs[symlink].type = "file") =>
                      /\ LExists(fs', Bak(symlink))
                      /\ fs'[Bak(symlink)] = fs[symlink]

\* C17: when SymlinkAction.execute returns, every resolved target is a
\* symbolic link to its content file inside an existing directory, and every
\* target that was a regular file before the call is found unchanged at the
\* path with '.bak' appended.
C17_BackupThenLink == [][C17_ExecuteStep]_vars

\* a directory has been linked file by file into a target directory that
\* held a regular file at one of the target paths: the file is at the '.bak'
\* path and the link is in its place
C17_Witness ==
    /\ SymlinkCompleted(ret)
    /\ Cardinality(DOMAIN ret.val.map) = Cardinality(ContentFiles)
    /\ OldFile \in Range(ret.val.map)
    /\ fs[OldFile].type = "link"
    /\ LExists(fs, Bak(OldFile))
    /\ fs[Bak(OldFile)] = FileNode(<<Lit("old")>>, DefaultMode)

----------------------------------------------------------------------------
(* Properties of StowAction with an invalid non_templates option (Spec) *)

\* the stow action was given a non_templates value that is none of 'copy',
\* 'symlink' and 'ignore' in any letter case
InvalidNonTemplates ==
    /\ act.kind = "stow"
    /\ Has(act, "non_templates")
    /\ Lower(act.options["non_templates"]) \notin {"copy", "symlink", "ignore"}

\* C18 (construction): the action exists, holds its compile sub-action and
\* ignores non-templates
C18_Constructed ==
    InvalidNonTemplates =>
        /\ "compile_action" \in DOMAIN act
        /\ act.compile_action.kind = "compile"
        /\ act.ignore_non_templates

\* C18 (one call): execute() executes the compile sub-action and nothing
\* else, returns what that returned, and leaves no file but what the compile
\* sub-action wrote
C18_ExecuteStep ==
    (nexec' = nexec + 1 /\ InvalidNonTemplates) =>
        /\ log' = Append(log, [kind |-> "compile", index |-> 0])
        /\ \E order \in Orders :
              LET o == CompileExecute(act.compile_action,
                                      World(fs, ctx, spawned, log'), order)
              IN  /\ ret'.val = o.ret
                  /\ fs' = o.world.fs
                  /\ act'.compile_action = o.self
        /\ \A p \in DOMAIN fs' : fs'[p].type # "link"
        /\ ret'.val.kind = "map" =>
              \A p \in DOMAIN fs' \ DOMAIN fs :
                  fs'[p].type = "file" => p \in Range(ret'.val.map)

\* C18: a stow action with an invalid non_templates value is constructed
\* without an exception and executes as with 'ignore': only the compile
\* sub-action runs, its result is returned, and no file is copied or linked.
C18_InvalidMeansIgnore ==
    []C18_Constructed /\ [][C18_ExecuteStep]_vars

\* such an action has been executed over a directory with a template and two
\* other files: the template alone was handled
C18_Witness ==
    /\ InvalidNonTemplates
    /\ ret.op = "execute"
    /\ ret.val.kind = "map"
    /\ DOMAIN ret.val.map = {TemplateA}
    /\ IsFile(fs, ret.val.map[TemplateA])
    /\ IsFile(fs, BTpl)
    /\ ~LExists(fs, TargetDir \o <<Name(BTpl)>>)

----------------------------------------------------------------------------
(* Properties of the absolute-path assertions (Spec) *)

\* C19: an ownership query of a compile, copy or stow action with a path
\* that is not absolute fails the assertion, returning neither True nor
\* False; so does the construction of an action or of an ActionBlock with a
\* directory that is not absolute, and no object comes into being.
C19_AssertionFails ==
    /\ (ret.op = "contains" /\ ~ret.absolute) =>
          ret.val = RetRaise("AssertionError")
    /\ (ret.op = "construct" /\ ~ret.directory.abs) =>
          ret.val = RetRaise("AssertionError")

----------------------------------------------------------------------------
(* Properties of CopyAction with permissions (Spec) *)

\* the chmod commands the step has spawned
ChmodsSpawned ==
    {n \in (Len(spawned) + 1)..Len(spawned') : spawned'[n].kind = "chmod"}

\* C20 (one call): what execute() of a copy action with permissions does,
\* wherever chmod fails
C20_ExecuteStep ==
    (/\ nexec' = nexec + 1
     /\ act.kind = "copy"
     /\ ~act.null_object
     /\ Has(act, "permissions")) =>
        LET copies == ResolveTargets(fs, OptionPath(act, "content"),
                                     OptionPath(act, "target"),
                                     Option(act, "include", IncludeAll))
        IN  /\ ret'.val = RetMap(copies)
            /\ \A content \in DOMAIN copies :
                  LET copy == IF IsDir(fs, copies[content])
                              THEN copies[content] \o <<Name(content)>>
                              ELSE copies[content]
                  IN  /\ IsFile(fs', copy)
                      /\ ReadData(fs', copy) = ReadData(fs, content)
                      /\ content \in DOMAIN act'.copied_files
                      /\ copies[content] \in act'.copied_files[content]
            /\ {spawned'[n].path : n \in ChmodsSpawned} = Range(copies)
            /\ Cardinality(ChmodsSpawned) = Cardinality(DOMAIN copies)

\* C20: a copy action with permissions whose chmod fails for some copies
\* does not raise: every resolved file is copied and recorded in the ledger,
\* chmod is run once for every copy, and the whole mapping is returned.
C20_ChmodFailureAbsorbed == [][C20_ExecuteStep]_vars

\* three files were copied with permissions 707; chmod failed for the copy
\* of template.a, which keeps the bits of its content file, and succeeded
\* for the copy of b.tpl
C20_Witness ==
    /\ act.kind = "copy"
    /\ Has(act, "permissions")
    /\ ret.op = "execute"
    /\ ret.val.kind = "map"
    /\ Cardinality(DOMAIN ret.val.map) = Cardinality(ContentFiles)
    /\ Cardinality(DOMAIN act.copied_files) = Cardinality(ContentFiles)
    /\ ReadMode(fs, ret.val.map[TemplateA]) = DefaultMode
    /\ ReadMode(fs, ret.val.map[BTpl]) = "707"
    /\ Len(spawned) = Cardinality(ContentFiles)

----------------------------------------------------------------------------
(* Properties of the ownership query of StowAction (Spec) *)

\* the content files the stow action has compiled or, when its non-templates
\* are copied, copied
StowOwned ==
    DOMAIN act.compile_action.performed_compilations
    \cup (IF /\ "non_templates_action" \in DOMAIN act
             /\ act.non_templates_action.kind = "copy"
          THEN DOMAIN act.non_templates_action.copied_files
          ELSE {})

\* C21: the ownership query of a stow action that is no null object, asked
\* with an absolute path in any of the modes 'copy', 'symlink' and 'ignore'
\* or after an invalid mode, before or after execute(), returns a boolean
\* and never raises: True exactly when the path is a content file the stow
\* action has compiled or, in copy mode, copied.
C21_OwnershipQuery ==
    (/\ ret.op = "contains"
     /\ ret.absolute
     /\ act.kind = "stow"
     /\ ~act.null_object) =>
        /\ ret.val.kind = "bool"
        /\ ret.val.value = (ret.other \in StowOwned)

----------------------------------------------------------------------------
(* Properties of the temporary target of CompileAction (Spec) *)

\* a compile action that is no null object, configured with a content and
\* without a target, or holding the temporary file it made for that reason
Targetless(a) ==
    /\ a.kind = "compile"
    /\ ~a.null_object
    /\ Has(a, "content")
    /\ ~Has(a, "target") \/ Len(a.temp_files) > 0

\* C22 (state): the action holds at most one temporary file, which exists
\* and is its target option, and every template of the ledger has that one
\* target
C22_OneTempFile ==
    (Targetless(act) /\ Has(act, "target")) =>
        /\ Len(act.temp_files) = 1
        /\ act.options["target"] = Abs(act.temp_files[1])
        /\ IsFile(fs, act.temp_files[1])
        /\ FilesUnder(fs, TmpDir) = {act.temp_files[1]}
        /\ \A template \in DOMAIN act.performed_compilations :
              act.performed_compilations[template] = {act.temp_files[1]}

\* C22 (one call): execute() makes the temporary file when the action has
\* no target yet and keeps the one it has otherwise; the file is the target
\* of the call
C22_ExecuteStep ==
    (nexec' = nexec + 1 /\ Targetless(act)) =>
        /\ Len(act'.temp_files) = 1
        /\ Has(act, "target") => act'.temp_files = act.temp_files
        /\ ret'.val.kind = "map"
        /\ \A template \in DOMAIN ret'.val.map :
              /\ ret'.val.map[template] = act'.temp_files[1]
              /\ template = OptionPath(act, "content")
              /\ act'.performed_compilations[template] = {act'.temp_files[1]}

\* C22: a compile action configured without a target makes its temporary
\* target file once: every execute() call has the same temporary path as
\* its target, the action holds one temporary file, and the ledger maps the
\* template to that one path.
C22_TempFileOnce == []C22_OneTempFile /\ [][C22_ExecuteStep]_vars

\* the template was compiled to the temporary file by two calls, the second
\* under a changed context
C22_Witness ==
    /\ act.kind = "compile"
    /\ Len(act.temp_files) = 1
    /\ nexec = 2
    /\ ret.op = "execute"
    /\ ret.val = RetMap(TemplateA :> act.temp_files[1])
    /\ act.performed_compilations = (TemplateA :> {act.temp_files[1]})
    /\ ctx # InitialContext
    /\ ReadData(fs, act.temp_files[1]) = Render(ReadData(fs, TemplateA), ctx)

----------------------------------------------------------------------------
(* Properties of a repeated SymlinkAction.execute (Spec) *)

\* the links the action has made in place of a regular file that it moved
\* to the '.bak' path, where the file still is
BackedUp ==
    {symlink \in UNION Range(act.symlinked_files) :
        /\ LExists(fs, symlink)
        /\ fs[symlink].type = "link"
        /\ LExists(fs, Bak(symlink))
        /\ fs[Bak(symlink)].type = "file"}

\* no directory is where the action is to make a link
NoDirectoryInTheWay ==
    \A symlink \in Range(ResolveTargets(fs, OptionPath(act, "content"),
                                        OptionPath(act, "target"),
                                        Option(act, "include", IncludeAll))) :
        ~IsDir(fs, symlink)

\* C23 (one call): a further execute() returns, leaves the links in place
\* and leaves the backups as they were
C23_ReExecuteStep ==
    (/\ nexec' = nexec + 1
     /\ act.kind = "symlink"
     /\ ~act.null_object
     /\ BackedUp # {}
     /\ NoDirectoryInTheWay) =>
        /\ ret'.val.kind = "map"
        /\ \A symlink \in BackedUp :
              /\ LExists(fs', symlink)
              /\ fs'[symlink] = fs[symlink]
              /\ LExists(fs', Bak(symlink))
              /\ fs'[Bak(symlink)] = fs[Bak(symlink)]

\* C23: once a symlink action has moved a regular file to the '.bak' path,
\* every further execute() of the action returns without raising, leaves the
\* target a link to its content and leaves the '.bak' path holding the file
\* as it was: the backup is not overwritten and does not become a link.
C23_BackupKept == [][C23_ReExecuteStep]_vars

----------------------------------------------------------------------------
(* Properties of the mapping performed_compilations() returns              *)
(* (SpecSnapshot)                                                          *)

\* C24 (one step): what the caller does to the mapping it got changes
\* neither the ledger of the action nor the answer of an ownership query
C24_MutateStep ==
    ret'.op = "mutate" =>
        /\ act'.performed_compilations = act.performed_compilations
        /\ \A other \in Queries :
              CompileQuery(act', other) = CompileQuery(act, other)

\* C24: the mapping that CompileAction.performed_compilations() returns is
\* a snapshot apart from the action: adding or removing keys of the mapping
\* or elements of the target sets in it changes neither the ledger of the
\* action nor the answer of any later ownership query.
C24_SnapshotIsolated == [][C24_MutateStep]_vars

\* the mapping ActionBlock.performed_compilations() returns holds sets of
\* its own: what the caller does to it changes no compile action of the
\* block (SpecBlock)
BlockSnapshotIsolated == [][ret'.op = "mutate" => block' = block]_vars

====
